---- MODULE Spec2Model ----
(***************************************************************************)
(* A model of egihash (src/egihash.cpp, src/egihash.h): the word codec,    *)
(* the sizing functions, the seed hash, the cache builder, the DAG item    *)
(* function, the DAG file writer and reader, and the epoch-keyed registry  *)
(* of DAG handles behind get_dag.                                          *)
(*                                                                         *)
(* Words are the source's int32_t values, kept as signed integers in       *)
(* -2^31 .. 2^31-1; a byte is an integer in 0..255; a std::string is a     *)
(* sequence of bytes.  The Keccak primitive (keccak-tiny.h) is not part of *)
(* the sources: H256 and H512 stand for it as fixed deterministic          *)
(* functions from byte strings to 32 and 64 bytes.                         *)
(*                                                                         *)
(* The byte sizes of the cache and the DAG are scaled down (a cache of a   *)
(* few items instead of 262139): the sizing code is the source's, run on   *)
(* smaller initial sizes and growths.                                      *)
(***************************************************************************)
EXTENDS Integers, Sequences, FiniteSets, TLC

\* ------------------------------------------------------------------ bounds

\* number of threads that call get_dag
NumThreads == 2
\* total number of get_dag calls made in one behaviour
MaxCalls == 2
\* initial cache size, in pairs of 64-byte items (the source: 2^24 bytes)
CacheInitPairs == 2
\* cache growth per epoch, in pairs of 64-byte items (the source: 2^17 bytes)
CacheGrowthPairs == 1
\* initial DAG size, in pairs of 128-byte mixes (the source: 2^30 bytes)
DagInitPairs == 1
\* DAG growth per epoch, in pairs of 128-byte mixes (the source: 2^23 bytes)
DagGrowthPairs == 1

\* --------------------------------------------------------------- constants

WORD_BYTES == 4
EPOCH_LENGTH == 30000
MIX_BYTES == 128
HASH_BYTES == 64
DATASET_PARENTS == 256
CACHE_ROUNDS == 3
ACCESSES == 64
CALLBACK_FREQUENCY == 1
MAJOR_VERSION == 1
REVISION == 23
MINOR_VERSION == 0

\* "EGIHASH_DAG", the 11 characters of the array without its terminator
DAG_MAGIC_BYTES == <<69, 71, 73, 72, 65, 83, 72, 95, 68, 65, 71>>

\* sizeof(DAG_MAGIC_BYTES) + (5 * sizeof(uint64_t)) + (3 * sizeof(uint32_t)) + 2
DAG_FILE_HEADER_SIZE == (Len(DAG_MAGIC_BYTES) + 1) + (5 * 8) + (3 * 4) + 2

\* the sizes of the source, which the sizing functions are checked on
DATASET_BYTES_INIT == 1073741824
DATASET_BYTES_GROWTH == 8388608
CACHE_BYTES_INIT == 16777216
CACHE_BYTES_GROWTH == 131072

\* the sizes the model runs the sizing code on
SCALED_CACHE_BYTES_INIT == CacheInitPairs * 2 * HASH_BYTES
SCALED_CACHE_BYTES_GROWTH == CacheGrowthPairs * 2 * HASH_BYTES
SCALED_DATASET_BYTES_INIT == DagInitPairs * 2 * MIX_BYTES
SCALED_DATASET_BYTES_GROWTH == DagGrowthPairs * 2 * MIX_BYTES

\* ------------------------------------------------------- 32-bit arithmetic

\* the upper and lower 16 bits of a word, as unsigned values
Hi16(w) == (w \div 65536) % 65536
Lo16(w) == w % 65536

\* the int32_t with the given unsigned halves
MkWord(h, l) == IF h >= 32768 THEN (h - 65536) * 65536 + l ELSE h * 65536 + l

\* bit k of a non-negative integer
Bit(x, k) == (x \div (2 ^ k)) % 2

XorNibble == [a \in 0..15 |-> [b \in 0..15 |->
    ((Bit(a, 0) + Bit(b, 0)) % 2)
    + 2 * ((Bit(a, 1) + Bit(b, 1)) % 2)
    + 4 * ((Bit(a, 2) + Bit(b, 2)) % 2)
    + 8 * ((Bit(a, 3) + Bit(b, 3)) % 2)]]

Xor16(a, b) ==
    XorNibble[a % 16][b % 16]
    + 16 * XorNibble[(a \div 16) % 16][(b \div 16) % 16]
    + 256 * XorNibble[(a \div 256) % 16][(b \div 256) % 16]
    + 4096 * XorNibble[(a \div 4096) % 16][(b \div 4096) % 16]

\* operator ^ on two 32-bit values
Xor32(x, y) == MkWord(Xor16(Hi16(x), Hi16(y)), Xor16(Lo16(x), Lo16(y)))

\* the unsigned value of a word, reduced modulo n (n < 46340)
U32Mod(w, n) == (((Hi16(w) % n) * (65536 % n)) + Lo16(w)) % n

\* 2^k modulo n
RECURSIVE Pow2Mod(_, _)
Pow2Mod(k, n) ==
    IF k = 0 THEN 1 % n
    ELSE IF k % 2 = 1 THEN (2 * Pow2Mod(k - 1, n)) % n
    ELSE LET h == Pow2Mod(k \div 2, n) IN (h * h) % n

\* the value of a word converted to size_t (sign extension to 64 bits),
\* reduced modulo n
SizeTMod(w, n) ==
    IF w >= 0 THEN w % n ELSE (Pow2Mod(64, n) + (w % n)) % n

\* fnv: ((v1 * FNV_PRIME) ^ v2) % FNV_MODULUS, FNV_PRIME = 0x01000193
fnv(v1, v2) ==
    LET a == Hi16(v1)
        b == Lo16(v1)
        low == b * 403
        high == (a * 403 + b * 256 + (low \div 65536)) % 65536
    IN  Xor32(MkWord(high, low % 65536), v2)

\* --------------------------------------------------------------- the codec

\* decode_int: four bytes, the first the most significant
decode_int(data) ==
    MkWord(data[1] * 256 + data[2], data[3] * 256 + data[4])

\* zpad: str followed by zero bytes up to length
zpad(str, length) ==
    str \o [k \in 1..(IF length > Len(str) THEN length - Len(str) ELSE 0) |-> 0]

\* encode_int: the bytes of x's hexadecimal text, which has no leading zeros
encode_int(x) ==
    LET b == <<Hi16(x) \div 256, Hi16(x) % 256, Lo16(x) \div 256, Lo16(x) % 256>>
    IN  IF x = 0 THEN <<>>
        ELSE IF b[1] # 0 THEN b
        ELSE IF b[2] # 0 THEN SubSeq(b, 2, 4)
        ELSE IF b[3] # 0 THEN SubSeq(b, 3, 4)
        ELSE SubSeq(b, 4, 4)

\* sha3_base::deserialize: hash_size / 4 words
deserialize(data) ==
    [j \in 1..(Len(data) \div WORD_BYTES) |->
        decode_int(SubSeq(data, WORD_BYTES * (j - 1) + 1, WORD_BYTES * j))]
        \o <<>>

\* sha3_base::serialize
\* sha3_base::serialize: the padded encodings of the words, in order (the
\* sequence is split in halves to keep the evaluation shallow)
RECURSIVE serialize(_)
serialize(h) ==
    IF h = <<>> THEN <<>>
    ELSE IF Len(h) = 1 THEN zpad(encode_int(h[1]), 4)
    ELSE serialize(SubSeq(h, 1, Len(h) \div 2))
            \o serialize(SubSeq(h, (Len(h) \div 2) + 1, Len(h)))

\* ------------------------------------------------------- the hash primitive

\* the sum of k * input[k] for k in lo..hi
RECURSIVE WeightedSum(_, _, _)
WeightedSum(input, lo, hi) ==
    IF lo > hi THEN 0
    ELSE IF lo = hi THEN lo * input[lo]
    ELSE WeightedSum(input, lo, (lo + hi) \div 2)
            + WeightedSum(input, ((lo + hi) \div 2) + 1, hi)

\* the stand-in for keccak-tiny: hash_size bytes that depend on every byte
\* of the input and on its length
Keccak(hash_size, input) ==
    LET s == (WeightedSum(input, 1, Len(input)) + 7 * Len(input) + 1) % 65521
    IN  [k \in 1..hash_size |-> (s * (2 * k - 1) + 17 * k + (s \div 256)) % 256]
            \o <<>>

H256(input) == Keccak(32, input)
H512(input) == Keccak(64, input)

\* hash_words<sha3_512_t>(std::string): hash the bytes, return the words
sha3_512_str(data) == deserialize(H512(data))
\* hash_words<sha3_512_t>(deserialized_hash_t): serialize, then hash
sha3_512(words) == sha3_512_str(serialize(words))
sha3_256_str(data) == deserialize(H256(data))
sha3_256(words) == sha3_256_str(serialize(words))

\* ------------------------------------------------------------------ sizing

RECURSIVE SqrtFloor(_, _, _)
SqrtFloor(x, lo, hi) ==
    IF lo >= hi THEN lo
    ELSE LET mid == (lo + hi + 1) \div 2
         IN  IF mid * mid <= x THEN SqrtFloor(x, mid, hi)
             ELSE SqrtFloor(x, lo, mid - 1)

\* is_prime: no i in 2 .. sqrt(x) divides x (so 0 and 1 pass)
is_prime(x) ==
    \A i \in 2..SqrtFloor(x, 0, IF x < 46340 THEN x ELSE 46340) : x % i # 0

\* the while loop of get_cache_size and get_full_size: step down by 2 * unit
\* until size / unit is prime
RECURSIVE prime_search(_, _)
prime_search(size, unit) ==
    IF is_prime(size \div unit) THEN size
    ELSE prime_search(size - 2 * unit, unit)

\* cache_t::impl_t::get_cache_size, on the given initial size and growth
get_cache_size_from(init, growth, block_number) ==
    prime_search((init + growth * (block_number \div EPOCH_LENGTH)) - HASH_BYTES,
                 HASH_BYTES)

\* dag::impl_t::get_full_size, on the given initial size and growth
get_full_size_from(init, growth, block_number) ==
    prime_search((init + growth * (block_number \div EPOCH_LENGTH)) - MIX_BYTES,
                 MIX_BYTES)

get_cache_size(block_number) ==
    get_cache_size_from(SCALED_CACHE_BYTES_INIT, SCALED_CACHE_BYTES_GROWTH,
                        block_number)

get_full_size(block_number) ==
    get_full_size_from(SCALED_DATASET_BYTES_INIT, SCALED_DATASET_BYTES_GROWTH,
                       block_number)

\* the sizing functions on the source's sizes
get_cache_size_unscaled(block_number) ==
    get_cache_size_from(CACHE_BYTES_INIT, CACHE_BYTES_GROWTH, block_number)

\* a DAG size searched in steps of the cache's unit
get_full_size_by_hash_bytes(block_number) ==
    prime_search((DATASET_BYTES_INIT
                     + DATASET_BYTES_GROWTH * (block_number \div EPOCH_LENGTH))
                     - HASH_BYTES, HASH_BYTES)

get_full_size_unscaled(block_number) ==
    get_full_size_from(DATASET_BYTES_INIT, DATASET_BYTES_GROWTH, block_number)

\* ------------------------------------------------------------- the seed hash

\* std::string s(epoch0_seedhash): the constructor from a char const * stops
\* at the first NUL, and every character of epoch0_seedhash is NUL
epoch0_seedhash_string == <<>>

RECURSIVE seedhash_loop(_, _)
seedhash_loop(s, count) ==
    IF count = 0 THEN s
    ELSE seedhash_loop(serialize(sha3_256_str(s)), count - 1)

get_seedhash(block_number) ==
    seedhash_loop(epoch0_seedhash_string, block_number \div EPOCH_LENGTH)

\* --------------------------------------------------------- the cache builder

\* mkcache, line 333: the first item
mkcache_first(seed) == <<sha3_512_str(seed)>>

\* mkcache, line 336: one step of the seeding loop
mkcache_seed_step(data) == Append(data, sha3_512(data[Len(data)]))

\* mkcache, lines 348-355: the body of the generation loop for round i and
\* item j (both from 0).  u is a reference to item (j-1+n)%n, which the XOR
\* changes in place; the hash of u is stored at index i
mkcache_round_step(data, i, j) ==
    LET n == Len(data)
        v == SizeTMod(data[j + 1][1], n)
        ui == (j - 1 + n) % n
        u == [k \in 1..Len(data[ui + 1]) |->
                Xor32(data[ui + 1][k], data[v + 1][k])] \o <<>>
        xored == [data EXCEPT ![ui + 1] = u]
    IN  [xored EXCEPT ![i + 1] = sha3_512(u)]

\* ------------------------------------------------------- the DAG item function

\* calc_dataset_item, lines 625-629: mix[k] = fnv(mix[k], l[k]) over the
\* common length
fnv_elementwise(mix, l) ==
    [k \in 1..Len(mix) |-> IF k <= Len(l) THEN fnv(mix[k], l[k]) ELSE mix[k]]
        \o <<>>

\* calc_dataset_item, lines 622-624: cache_index % n in turn j
dataset_parent_index(cache, i, mix, j) ==
    LET n == Len(cache)
        r == HASH_BYTES \div WORD_BYTES
        cache_index == fnv(Xor32(i, j), mix[(j % r) + 1])
    IN  U32Mod(cache_index, n)

\* a parents loop body that takes the first word of mix in every turn
dataset_parent_step_first_word(cache, i, mix, j) ==
    LET n == Len(cache)
        cache_index == fnv(Xor32(i, j), mix[1])
    IN  fnv_elementwise(mix, cache[U32Mod(cache_index, n) + 1])

\* calc_dataset_item, lines 622-629: the body of the parents loop for j
dataset_parent_step(cache, i, mix, j) ==
    fnv_elementwise(mix, cache[dataset_parent_index(cache, i, mix, j) + 1])

\* the parents loop for j from lo up to hi - 1, in order: the first half of
\* the turns, then the second half on its result (the halving only keeps
\* the evaluation shallow)
RECURSIVE dataset_parents(_, _, _, _, _)
dataset_parents(cache, i, mix, lo, hi) ==
    IF lo >= hi THEN mix
    ELSE IF lo + 1 = hi THEN dataset_parent_step(cache, i, mix, lo)
    ELSE LET mid == (lo + hi) \div 2
             m == dataset_parents(cache, i, mix, lo, mid)
         IN  IF m = <<>> THEN m ELSE dataset_parents(cache, i, m, mid, hi)

\* dag::impl_t::calc_dataset_item
calc_dataset_item(cache, i) ==
    LET n == Len(cache)
        first == cache[(i % n) + 1]
        mix == sha3_512([first EXCEPT ![1] = Xor32(first[1], i)])
    IN  sha3_512(dataset_parents(cache, i, mix, 0, DATASET_PARENTS))

\* ================================================================ get_dag

VARIABLES
    dag_cache,          \* the registry: epoch -> handle id, NoHandle if absent
    dag_cache_mutex,    \* the thread that holds the registry mutex, or NoThread
    heap,               \* the dag::impl_t objects ever allocated, by id
    thread,             \* each thread's position in get_dag and its locals
    returned,           \* the (epoch, handle) pairs get_dag has returned
    calls,              \* the number of calls made so far
    fs_handle,          \* file codec: the handle that save writes
    fs_file,            \* file codec: the bytes of the DAG file
    fs_result,          \* file codec: the outcome of the last save or load
    fs_edits,           \* file codec: the number of edits made to the file
    fn_dag,             \* functions: the generated handle of each epoch
    fn_call,            \* functions: the function last applied and its arguments
    fn_result,          \* functions: what it returned
    ob_run,             \* observer: the observed operation's position and locals
    ob_log              \* observer: the calls the observer has received

dag_vars == <<dag_cache, dag_cache_mutex, heap, thread, returned, calls>>
fs_vars == <<fs_handle, fs_file, fs_result, fs_edits>>
fn_vars == <<fn_dag, fn_call, fn_result>>
ob_vars == <<ob_run, ob_log>>
vars == <<dag_cache, dag_cache_mutex, heap, thread, returned, calls,
          fs_handle, fs_file, fs_result, fs_edits,
          fn_dag, fn_call, fn_result, ob_run, ob_log>>

Threads == 1..NumThreads
NoThread == 0
NoHandle == <<>>
\* an object's id: the thread that allocated it and the number of objects
\* that thread has allocated
HandleIds == Threads \X (1..MaxCalls)
\* the block numbers callers pass: the first and the last block of epoch 0
\* and the first block of epoch 1
BlockNumbers == {0, EPOCH_LENGTH - 1, EPOCH_LENGTH}
Epochs == {b \div EPOCH_LENGTH : b \in BlockNumbers}

EpochOf(block_number) == block_number \div EPOCH_LENGTH

\* the registry model keeps, of a dag::impl_t, its fields and the number of
\* items its cache and its data hold; "state" is the object's lifetime
FreeObject ==
    [state |-> "free", epoch |-> 0, size |-> 0, cache_epoch |-> 0,
     cache_size |-> 0, cache_len |-> 0, data_len |-> 0]

\* a destroyed object has no fields left to read
DestroyedObject == [FreeObject EXCEPT !.state = "destroyed"]

\* the object a race loser built: released when its get_dag returns
DiscardedObject == [FreeObject EXCEPT !.state = "discarded"]

IdleThread ==
    [pc |-> "idle", block_number |-> 0, impl |-> NoHandle, i |-> 0, j |-> 0,
     progress_counter |-> 0, callback |-> <<>>,
     result |-> [kind |-> "none", id |-> NoHandle, epoch |-> 0, what |-> ""]]

DagInit ==
    /\ dag_cache = [e \in Epochs |-> NoHandle]
    /\ dag_cache_mutex = NoThread
    /\ heap = [h \in HandleIds |-> FreeObject]
    /\ thread = [t \in Threads |-> IdleThread]
    /\ returned = {}
    /\ calls = 0

\* the id of the next object thread t allocates
NewId(t) ==
    <<t, 1 + Cardinality({k \in 1..MaxCalls : heap[<<t, k>>].state # "free"})>>

\* a call of get_dag(block_number, callback) begins (line 664)
Call(t, b) ==
    /\ thread[t].pc = "idle"
    /\ calls < MaxCalls
    /\ calls' = calls + 1
    /\ thread' = [thread EXCEPT ![t] =
          [IdleThread EXCEPT !.pc = "lock_find", !.block_number = b]]
    /\ UNCHANGED <<dag_cache, dag_cache_mutex, heap, returned, fs_vars, fn_vars, ob_vars>>

\* lock_guard<mutex> lock(dag_cache_mutex), line 668
LockFind(t) ==
    /\ thread[t].pc = "lock_find"
    /\ dag_cache_mutex = NoThread
    /\ dag_cache_mutex' = t
    /\ thread' = [thread EXCEPT ![t].pc = "find"]
    /\ UNCHANGED <<dag_cache, heap, returned, calls, fs_vars, fn_vars, ob_vars>>

\* one lock_guard for the whole of get_dag: a miss keeps the mutex
FindKeepingLock(t) ==
    LET e == EpochOf(thread[t].block_number)
    IN  /\ thread[t].pc = "find"
        /\ IF dag_cache[e] # NoHandle
           THEN /\ thread' = [thread EXCEPT ![t] =
                      [IdleThread EXCEPT !.result =
                          [kind |-> "handle", id |-> dag_cache[e],
                           epoch |-> e, what |-> ""]]]
                /\ returned' = returned \cup {<<e, dag_cache[e]>>}
                /\ dag_cache_mutex' = NoThread
           ELSE /\ thread' = [thread EXCEPT ![t].pc = "construct"]
                /\ UNCHANGED <<returned, dag_cache_mutex>>
        /\ UNCHANGED <<dag_cache, heap, calls, fs_vars, fn_vars, ob_vars>>

\* lines 669-674: find; a hit returns the stored handle; the guard's scope
\* ends either way
Find(t) ==
    LET e == EpochOf(thread[t].block_number)
    IN  /\ thread[t].pc = "find"
        /\ dag_cache_mutex' = NoThread
        /\ IF dag_cache[e] # NoHandle
           THEN /\ thread' = [thread EXCEPT ![t] =
                      [IdleThread EXCEPT !.result =
                          [kind |-> "handle", id |-> dag_cache[e],
                           epoch |-> e, what |-> ""]]]
                /\ returned' = returned \cup {<<e, dag_cache[e]>>}
           ELSE /\ thread' = [thread EXCEPT ![t].pc = "construct"]
                /\ UNCHANGED returned
        /\ UNCHANGED <<dag_cache, heap, calls, fs_vars, fn_vars, ob_vars>>

\* where mkcache goes after the seeding loop, and generate after its loop
AfterSeeding(th, n) ==
    IF th.i < n THEN th
    ELSE [th EXCEPT !.pc = "cache_generation", !.i = 0, !.j = 0,
                    !.progress_counter = 0]

AfterGeneration(th) ==
    IF th.i < CACHE_ROUNDS THEN th
    ELSE [th EXCEPT !.pc = "dag_generation", !.i = 0, !.j = 0]

\* generate's loop ending one item early
AfterDagGenerationShort(th, n) ==
    IF th.i < n - 1 THEN th ELSE [th EXCEPT !.pc = "lock_insert"]

AfterDagGeneration(th, n) ==
    IF th.i < n THEN th ELSE [th EXCEPT !.pc = "lock_insert"]

\* an exception leaves the constructor: the object is destroyed and get_dag
\* ends with the exception
Throw(t, what) ==
    /\ heap' = [heap EXCEPT ![thread[t].impl] = DestroyedObject]
    /\ thread' = [thread EXCEPT ![t] =
          [IdleThread EXCEPT !.result =
              [kind |-> "error", id |-> NoHandle,
               epoch |-> EpochOf(thread[t].block_number), what |-> what]]]

\* the object put in the registry before it is built
ConstructPublished(t) ==
    LET b == thread[t].block_number
        id == NewId(t)
        obj == [state |-> "constructing",
                epoch |-> b \div EPOCH_LENGTH,
                size |-> get_full_size(b),
                cache_epoch |-> b \div EPOCH_LENGTH,
                cache_size |-> get_cache_size(b),
                cache_len |-> 1,
                data_len |-> 0]
    IN  /\ thread[t].pc = "construct"
        /\ heap' = [heap EXCEPT ![id] = obj]
        /\ dag_cache' = [dag_cache EXCEPT ![b \div EPOCH_LENGTH] = id]
        /\ thread' = [thread EXCEPT ![t] =
              AfterSeeding([thread[t] EXCEPT !.pc = "cache_seeding",
                                             !.impl = id, !.i = 1],
                           obj.cache_size \div HASH_BYTES)]
        /\ UNCHANGED <<dag_cache_mutex, returned, calls, fs_vars, fn_vars, ob_vars>>

\* line 678, new dag::impl_t(block_number, callback): the member
\* initializers (lines 436-439, 321-323) and mkcache up to the first item
\* (lines 330-333)
Construct(t) ==
    LET b == thread[t].block_number
        id == NewId(t)
        obj == [state |-> "constructing",
                epoch |-> b \div EPOCH_LENGTH,
                size |-> get_full_size(b),
                cache_epoch |-> b \div EPOCH_LENGTH,
                cache_size |-> get_cache_size(b),
                cache_len |-> 1,
                data_len |-> 0]
    IN  /\ thread[t].pc = "construct"
        /\ heap' = [heap EXCEPT ![id] = obj]
        /\ thread' = [thread EXCEPT ![t] =
              AfterSeeding([thread[t] EXCEPT !.pc = "cache_seeding",
                                             !.impl = id, !.i = 1],
                           obj.cache_size \div HASH_BYTES)]
        /\ UNCHANGED <<dag_cache, dag_cache_mutex, returned, calls, fs_vars, fn_vars, ob_vars>>

\* mkcache, lines 334-341: one turn of the seeding loop; continue is what
\* the observer returns
SeedStep(t, continue) ==
    LET th == thread[t]
        n == heap[th.impl].cache_size \div HASH_BYTES
        called == (th.i % CALLBACK_FREQUENCY) = 0
    IN  /\ th.pc = "cache_seeding"
        /\ called \/ continue
        /\ IF called /\ ~continue
           THEN /\ Throw(t, "Cache creation cancelled.")
           ELSE /\ heap' = [heap EXCEPT ![th.impl].cache_len = @ + 1]
                /\ thread' = [thread EXCEPT ![t] =
                      AfterSeeding([th EXCEPT !.i = @ + 1,
                          !.callback = IF called
                                       THEN <<th.i, n, "cache_seeding", continue>>
                                       ELSE @], n)]
        /\ UNCHANGED <<dag_cache, dag_cache_mutex, returned, calls, fs_vars, fn_vars, ob_vars>>

\* mkcache, lines 346-360: one turn of the inner generation loop
GenerationStep(t, continue) ==
    LET th == thread[t]
        n == heap[th.impl].cache_size \div HASH_BYTES
        called == (th.i % CALLBACK_FREQUENCY) = 0
        stepped == [th EXCEPT
            !.j = IF th.j + 1 < n THEN th.j + 1 ELSE 0,
            !.i = IF th.j + 1 < n THEN th.i ELSE th.i + 1,
            !.progress_counter = IF called THEN @ + 1 ELSE @,
            !.callback = IF called
                         THEN <<th.progress_counter, n * CACHE_ROUNDS,
                                "cache_generation", continue>>
                         ELSE @]
    IN  /\ th.pc = "cache_generation"
        /\ called \/ continue
        /\ IF called /\ ~continue
           THEN /\ Throw(t, "Cache creation cancelled.")
           ELSE /\ thread' = [thread EXCEPT ![t] = AfterGeneration(stepped)]
                /\ UNCHANGED heap
        /\ UNCHANGED <<dag_cache, dag_cache_mutex, returned, calls, fs_vars, fn_vars, ob_vars>>

\* generate, lines 603-610: one turn of the loop
DagGenerationStep(t, continue) ==
    LET th == thread[t]
        n == heap[th.impl].size \div HASH_BYTES
        called == (th.i % CALLBACK_FREQUENCY) = 0
    IN  /\ th.pc = "dag_generation"
        /\ called \/ continue
        /\ IF called /\ ~continue
           THEN /\ Throw(t, "DAG creation cancelled.")
           ELSE /\ heap' = [heap EXCEPT ![th.impl].data_len = @ + 1]
                /\ thread' = [thread EXCEPT ![t] =
                      AfterDagGeneration([th EXCEPT !.i = @ + 1,
                          !.callback = IF called
                                       THEN <<th.i, n, "dag_generation", continue>>
                                       ELSE @], n)]
        /\ UNCHANGED <<dag_cache, dag_cache_mutex, returned, calls, fs_vars, fn_vars, ob_vars>>

\* lock_guard<mutex> lock(dag_cache_mutex), line 680
LockInsert(t) ==
    /\ thread[t].pc = "lock_insert"
    /\ dag_cache_mutex = NoThread
    /\ dag_cache_mutex' = t
    /\ thread' = [thread EXCEPT ![t].pc = "insert"]
    /\ UNCHANGED <<dag_cache, heap, returned, calls, fs_vars, fn_vars, ob_vars>>

\* a map assignment in place of insert: the key's handle is replaced
map_assign(map, key, value) == [map EXCEPT ![key] = value]

\* std::map::insert, line 681: the map after the insertion, unchanged when
\* the key is present
map_insert(map, key, value) ==
    IF map[key] = NoHandle THEN [map EXCEPT ![key] = value] ELSE map

\* lines 681-694: insert; return the inserted handle, or the one found when
\* the key was taken (the local impl is then released, which destroys the
\* object: nothing else refers to it)
Insert(t) ==
    LET th == thread[t]
        e == EpochOf(th.block_number)
        inserted == dag_cache[e] = NoHandle
        map == map_insert(dag_cache, e, th.impl)
    IN  /\ th.pc = "insert"
        /\ dag_cache' = map
        /\ dag_cache_mutex' = NoThread
        /\ heap' = [heap EXCEPT ![th.impl] =
                        IF inserted THEN [@ EXCEPT !.state = "live"]
                        ELSE DiscardedObject]
        /\ thread' = [thread EXCEPT ![t] = [IdleThread EXCEPT !.result =
              [kind |-> "handle", id |-> map[e], epoch |-> e, what |-> ""]]]
        /\ returned' = returned \cup {<<e, map[e]>>}
        /\ UNCHANGED <<calls, fs_vars, fn_vars, ob_vars>>

\* dag::dag(file_path, callback), lines 717-721, on a file that declares
\* epoch e: get_dag(file_path, callback), lines 700-710, returns an empty
\* shared_ptr
DagFromFile(t, e) ==
    /\ thread[t].pc = "idle"
    /\ calls < MaxCalls
    /\ calls' = calls + 1
    /\ thread' = [thread EXCEPT ![t] =
          [IdleThread EXCEPT !.result =
              [kind |-> "loaded", id |-> NoHandle, epoch |-> e, what |-> ""]]]
    /\ UNCHANGED <<dag_cache, dag_cache_mutex, heap, returned, fs_vars, fn_vars, ob_vars>>

Next ==
    \/ \E t \in Threads, b \in BlockNumbers : Call(t, b)
    \/ \E t \in Threads : LockFind(t)
    \/ \E t \in Threads : Find(t)
    \/ \E t \in Threads : Construct(t)
    \/ \E t \in Threads, continue \in BOOLEAN : SeedStep(t, continue)
    \/ \E t \in Threads, continue \in BOOLEAN : GenerationStep(t, continue)
    \/ \E t \in Threads, continue \in BOOLEAN : DagGenerationStep(t, continue)
    \/ \E t \in Threads : LockInsert(t)
    \/ \E t \in Threads : Insert(t)
    \/ \E t \in Threads, e \in Epochs : DagFromFile(t, e)

\* ======================================================= the DAG file codec

\* cache_t::impl_t::mkcache with an observer that never stops: the seeding
\* loop (lines 334-341), then the rounds (lines 344-361)
RECURSIVE mkcache_seeding(_, _)
mkcache_seeding(data, n) ==
    IF Len(data) >= n THEN data
    ELSE mkcache_seeding(mkcache_seed_step(data) \o <<>>, n)

\* the inner loop of round i from item j on, and the rounds from i on
RECURSIVE mkcache_round(_, _, _)
mkcache_round(data, i, j) ==
    IF j >= Len(data) THEN data
    ELSE LET d == mkcache_round_step(data, i, j) \o <<>>
         IN  IF d = <<>> THEN d ELSE mkcache_round(d, i, j + 1)

RECURSIVE mkcache_rounds(_, _)
mkcache_rounds(data, i) ==
    IF i >= CACHE_ROUNDS THEN data
    ELSE LET d == mkcache_round(data, i, 0)
         IN  IF d = <<>> THEN d ELSE mkcache_rounds(d, i + 1)

mkcache(seed, n) ==
    LET seeded == mkcache_seeding(mkcache_first(seed), n)
    IN  IF seeded = <<>> THEN seeded ELSE mkcache_rounds(seeded, 0)

\* a generation that counts the items from 1
generate_from_one(cache, n) ==
    [i \in 1..n |-> calc_dataset_item(cache, i)] \o <<>>

\* dag::impl_t::generate with an observer that never stops
generate(cache, n) == [i \in 1..n |-> calc_dataset_item(cache, i - 1)] \o <<>>

\* dag::impl_t::impl_t(block_number, callback), lines 435-442: the handle
dag_impl(block_number) ==
    LET cache_size == get_cache_size(block_number)
        size == get_full_size(block_number)
        cache == mkcache(get_seedhash(block_number), cache_size \div HASH_BYTES)
    IN  IF cache = <<>> THEN NoHandle
        ELSE [epoch |-> block_number \div EPOCH_LENGTH,
              size |-> size,
              cache |-> [epoch |-> block_number \div EPOCH_LENGTH,
                         size |-> cache_size,
                         data |-> cache],
              data |-> generate(cache, size \div HASH_BYTES)]

\* write(&x, count) of an unsigned x: count bytes, the least significant
\* first (the build's byte order)
RECURSIVE write_uint(_, _)
write_uint(x, count) ==
    IF count = 0 THEN <<>> ELSE <<x % 256>> \o write_uint(x \div 256, count - 1)

\* read(&x, count) into an unsigned x (in the model's files the value is
\* below 2^31)
RECURSIVE read_uint(_)
read_uint(bytes) ==
    IF bytes = <<>> THEN 0 ELSE Head(bytes) + 256 * read_uint(Tail(bytes))

\* write(&j, sizeof(j)) of a word, lines 490 and 502
write_word(w) ==
    <<Lo16(w) % 256, Lo16(w) \div 256, Hi16(w) % 256, Hi16(w) \div 256>>

\* the bytes lines 488-491 and 500-503 write for one item
write_item(item) ==
    [k \in 1..(WORD_BYTES * Len(item)) |->
        write_word(item[((k - 1) \div WORD_BYTES) + 1])[((k - 1) % WORD_BYTES) + 1]]

RECURSIVE write_items(_)
write_items(items) ==
    IF items = <<>> THEN <<>>
    ELSE IF Len(items) = 1 THEN write_item(items[1]) \o <<>>
    ELSE write_items(SubSeq(items, 1, Len(items) \div 2))
            \o write_items(SubSeq(items, (Len(items) \div 2) + 1, Len(items)))

\* save, lines 460-482: the header
save_header(h) ==
    LET cache_begin == DAG_FILE_HEADER_SIZE
        cache_end == cache_begin + h.cache.size
        dag_begin == cache_end
        dag_end == dag_begin + h.size
    IN  DAG_MAGIC_BYTES \o <<0>>
        \o write_uint(MAJOR_VERSION, 4) \o write_uint(REVISION, 4)
        \o write_uint(MINOR_VERSION, 4)
        \o write_uint(h.epoch, 8)
        \o write_uint(cache_begin, 8) \o write_uint(cache_end, 8)
        \o write_uint(dag_begin, 8) \o write_uint(dag_end, 8)
        \o <<0>>

NoResult ==
    [op |-> "none", error |-> "", handle |-> NoHandle, items |-> 0,
     callback |-> <<>>]

\* dag::impl_t::save, lines 453-511.  stop is the count at which the observer
\* returns false, 0 if it never does; the item of that count is written
\* before the observer is asked.  The result holds the file's bytes and the
\* last observer call
save(h, stop) ==
    LET items == h.cache.data \o h.data
        max_count == h.cache.size + Len(h.data)
        written == IF stop = 0 THEN Len(items) ELSE stop
    IN  [file |-> save_header(h) \o write_items(SubSeq(items, 1, written)),
         result |-> [op |-> "save",
                     error |-> IF stop = 0 THEN "" ELSE "DAG save cancelled.",
                     handle |-> NoHandle,
                     items |-> written,
                     callback |-> <<written, max_count, "dag_saving", stop = 0>>]]

\* std::string(magic): the characters before the first NUL
RECURSIVE c_string(_)
c_string(chars) ==
    IF chars = <<>> \/ Head(chars) = 0 THEN <<>>
    ELSE <<Head(chars)>> \o c_string(Tail(chars))

\* the literal 1090516865 of line 532 is 65 + 16776896 + 1073739904, the
\* header and the cache and DAG sizes of epoch 0
MIN_DAG_FILE_SIZE == 65 + get_cache_size(0) + get_full_size(0)

\* a version check that asks for both fields to differ
version_differs_in_both(major, revision) ==
    (major # MAJOR_VERSION) /\ (revision # REVISION)

\* line 551
version_is_invalid(major, revision) ==
    (major # MAJOR_VERSION) \/ (revision # REVISION)

\* line 566
cache_is_corrupt(cache_begin, cache_end, cache_size, filesize) ==
    (cache_end <= cache_begin) \/ (cache_size # (cache_end - cache_begin))
        \/ (cache_end >= filesize)

\* line 573
dag_is_corrupt(dag_begin, dag_end, size, filesize) ==
    (dag_end <= dag_begin) \/ (size # (dag_end - dag_begin))
        \/ (dag_end > filesize)

\* the fields load reads from the first 65 bytes, lines 539-562
magic_of(file) == SubSeq(file, 1, Len(DAG_MAGIC_BYTES))
pad_of(file) == file[Len(DAG_MAGIC_BYTES) + 1]
major_of(file) == read_uint(SubSeq(file, 13, 16))
revision_of(file) == read_uint(SubSeq(file, 17, 20))
minor_of(file) == read_uint(SubSeq(file, 21, 24))
epoch_of(file) == read_uint(SubSeq(file, 25, 32))
cache_begin_of(file) == read_uint(SubSeq(file, 33, 40))
cache_end_of(file) == read_uint(SubSeq(file, 41, 48))
dag_begin_of(file) == read_uint(SubSeq(file, 49, 56))
dag_end_of(file) == read_uint(SubSeq(file, 57, 64))

\* dag::impl_t::load, lines 513-597, with cache_t::impl_t::load, lines
\* 364-379, on an object whose cache holds no items.  stop is the count at
\* which the observer returns false, counted over the cache items and then
\* the DAG items, 0 if it never does.  Both loops iterate over copies of the
\* items (for (auto i : data)): what they read is lost and the items of the
\* handle stay empty.  An exception leaves no handle
load(file, stop) ==
    LET filesize == Len(file)
        epoch == epoch_of(file)
        cache_size == get_cache_size((epoch * EPOCH_LENGTH) + 1)
        size == get_full_size((epoch * EPOCH_LENGTH) + 1)
        cache_hash_count == cache_size \div HASH_BYTES
        dag_hash_count == size \div HASH_BYTES
        rejected(what) == [NoResult EXCEPT !.op = "load", !.error = what]
    IN  IF filesize < MIN_DAG_FILE_SIZE THEN rejected("DAG is corrupt")
        ELSE IF c_string(magic_of(file)) # DAG_MAGIC_BYTES
        THEN rejected("Not a DAG file")
        ELSE IF version_is_invalid(major_of(file), revision_of(file))
        THEN rejected("DAG version is invalid")
        ELSE IF cache_is_corrupt(cache_begin_of(file), cache_end_of(file),
                                 cache_size, filesize)
        THEN rejected("DAG cache is corrupt")
        ELSE IF dag_is_corrupt(dag_begin_of(file), dag_end_of(file),
                               size, filesize)
        THEN rejected("DAG is corrupt")
        ELSE IF stop \in 1..cache_hash_count
        THEN [rejected("Cache loading cancelled.") EXCEPT
                 !.items = stop,
                 !.callback = <<stop, cache_hash_count, "cache_loading", FALSE>>]
        ELSE IF stop \in (cache_hash_count + 1)..(cache_hash_count + dag_hash_count)
        THEN [rejected("DAG loading cancelled.") EXCEPT
                 !.items = stop,
                 !.callback = <<stop - cache_hash_count, dag_hash_count,
                                "dag_loading", FALSE>>]
        ELSE [op |-> "load", error |-> "",
              handle |-> [epoch |-> epoch,
                          size |-> size,
                          cache |-> [epoch |-> epoch,
                                     size |-> cache_size,
                                     data |-> [k \in 1..cache_hash_count |-> <<>>]],
                          data |-> [k \in 1..dag_hash_count |-> <<>>]],
              items |-> cache_hash_count + dag_hash_count,
              callback |-> <<dag_hash_count, dag_hash_count, "dag_loading", TRUE>>]

\* no function has been applied
NoCall == [op |-> "none", args |-> <<>>]

\* the functions' variables stand still in the other specifications
FnIdle ==
    /\ fn_dag = <<>>
    /\ fn_call = NoCall
    /\ fn_result = <<>>

\* no operation is under observation: the locals of mkcache, generate, save
\* and load, the number of items computed, read or written, and the outcome
NoRun ==
    [op |-> "none", epoch |-> 0, pc |-> "idle", i |-> 0, j |-> 0, count |-> 0,
     progress_counter |-> 0, work |-> 0, error |-> ""]

\* the observed operation stands still in the other specifications
ObIdle ==
    /\ ob_run = NoRun
    /\ ob_log = <<>>

\* the file codec stands still in the registry's specification
FsIdle ==
    /\ fs_handle = <<>>
    /\ fs_file = <<>>
    /\ fs_result = NoResult
    /\ fs_edits = 0

Init == DagInit /\ FsIdle /\ FnIdle /\ ObIdle
Spec == Init /\ [][Next]_vars

\* ------------------------------------ the file codec's specification

\* number of changes made to the file from outside in one behaviour
MaxEdits == 2

\* the block numbers the saved handles are generated for
FsBlockNumbers == {EPOCH_LENGTH - 1, EPOCH_LENGTH}

\* the number of items a handle holds, cache items first
ItemCount(h) == Len(h.cache.data) + Len(h.data)

\* the file with the bytes from position pos (from 1) replaced
Patch(file, pos, bytes) ==
    SubSeq(file, 1, pos - 1) \o bytes
        \o SubSeq(file, pos + Len(bytes), Len(file))

\* header positions (from 1) of the bytes an edit flips: the first and the
\* last magic character, the byte after the magic, the low bytes of major,
\* revision and minor, the last header byte
FlipPositions ==
    {1, Len(DAG_MAGIC_BYTES), Len(DAG_MAGIC_BYTES) + 1, 13, 17, 21, 65}

\* positions (from 1) of the begin and end offsets of the two ranges
RangeFields == [cache |-> <<33, 41>>, dag |-> <<49, 57>>]

ShiftDeltas == {0 - DAG_FILE_HEADER_SIZE, 0 - 1, 1}
ResizeDeltas == {0 - 1, 1}

\* the counts at which an observer stops a save or a load: never (0), or at
\* the first or the last item of the cache or of the DAG
StopCounts(h) ==
    {0, 1, Len(h.cache.data), Len(h.cache.data) + 1, ItemCount(h)}

\* save(file_path, callback) on the generated handle; the file is written
\* once, what changes it afterwards comes from outside
Save(stop) ==
    LET saved == save(fs_handle, stop)
    IN  /\ fs_file = <<>>
        /\ fs_file' = saved.file
        /\ fs_result' = saved.result
        /\ UNCHANGED <<fs_handle, fs_edits, dag_vars, fn_vars, ob_vars>>

\* load(file_path, callback) on the file as it is, once for each file
Load(stop) ==
    /\ fs_file # <<>>
    /\ fs_result.op # "load"
    /\ fs_result' = load(fs_file, stop)
    /\ UNCHANGED <<fs_handle, fs_file, fs_edits, dag_vars, fn_vars, ob_vars>>

Edited(file) ==
    /\ fs_edits < MaxEdits
    /\ fs_edits' = fs_edits + 1
    /\ fs_file' = file
    /\ fs_result' = NoResult
    /\ UNCHANGED <<fs_handle, dag_vars, fn_vars, ob_vars>>

\* the lowest bit of one header byte is flipped (revision 23 becomes 22)
FlipByte(pos) ==
    /\ Len(fs_file) >= pos
    /\ Edited(Patch(fs_file, pos,
                    <<IF fs_file[pos] % 2 = 0 THEN fs_file[pos] + 1
                      ELSE fs_file[pos] - 1>>))

\* the header declares another epoch
SetEpoch(e) ==
    /\ Len(fs_file) >= 65
    /\ epoch_of(fs_file) # e
    /\ Edited(Patch(fs_file, 25, write_uint(e, 8)))

\* a range is moved: both its offsets change by delta
ShiftRange(which, delta) ==
    LET f == RangeFields[which]
        begin == read_uint(SubSeq(fs_file, f[1], f[1] + 7))
        end == read_uint(SubSeq(fs_file, f[2], f[2] + 7))
    IN  /\ Len(fs_file) >= 65
        /\ begin + delta >= 0
        /\ Edited(Patch(Patch(fs_file, f[1], write_uint(begin + delta, 8)),
                        f[2], write_uint(end + delta, 8)))

\* a range's end offset changes by delta
ResizeRange(which, delta) ==
    LET f == RangeFields[which]
        end == read_uint(SubSeq(fs_file, f[2], f[2] + 7))
    IN  /\ Len(fs_file) >= 65
        /\ end + delta >= 0
        /\ Edited(Patch(fs_file, f[2], write_uint(end + delta, 8)))

\* the file loses its last byte
Truncate ==
    /\ fs_file # <<>>
    /\ Edited(SubSeq(fs_file, 1, Len(fs_file) - 1))

\* the file gains a zero byte
AppendByte ==
    /\ fs_file # <<>>
    /\ Edited(Append(fs_file, 0))

FsNext ==
    \/ \E stop \in StopCounts(fs_handle) : Save(stop)
    \/ \E stop \in StopCounts(fs_handle) : Load(stop)
    \/ \E pos \in FlipPositions : FlipByte(pos)
    \/ \E e \in Epochs : SetEpoch(e)
    \/ \E which \in DOMAIN RangeFields, delta \in ShiftDeltas :
          ShiftRange(which, delta)
    \/ \E which \in DOMAIN RangeFields, delta \in ResizeDeltas :
          ResizeRange(which, delta)
    \/ Truncate
    \/ AppendByte

FsInit ==
    /\ DagInit
    /\ fs_handle \in {dag_impl(b) : b \in FsBlockNumbers}
    /\ fs_file = <<>>
    /\ fs_result = NoResult
    /\ fs_edits = 0
    /\ FnIdle
    /\ ObIdle

FsSpec == FsInit /\ [][FsNext]_vars

\* ------------------------------------ the functions' specification

\* ---------------------------------------------------------------- hashimoto

\* hashimoto, lines 760-765: the header's words, then one word per byte of
\* nonce, the byte at the highest address first.  nonce is the object's
\* eight bytes in memory order, the least significant first in this build
hashimoto_header_seed(header, nonce) == header \o [i \in 1..8 |-> nonce[9 - i]]

\* hashimoto, line 766
hashimoto_s(header, nonce) == sha3_512(hashimoto_header_seed(header, nonce))

\* an index that is not multiplied by the number of hashes in a mix
hashimoto_p_unscaled(s, mix, n, i) ==
    LET w == MIX_BYTES \div WORD_BYTES
        mixhashes == MIX_BYTES \div HASH_BYTES
    IN  U32Mod(fnv(Xor32(i, s[1]), mix[(i % w) + 1]), n \div mixhashes)

\* hashimoto, line 775: p in access i
hashimoto_p(s, mix, n, i) ==
    LET w == MIX_BYTES \div WORD_BYTES
        mixhashes == MIX_BYTES \div HASH_BYTES
    IN  U32Mod(fnv(Xor32(i, s[1]), mix[(i % w) + 1]), n \div mixhashes)
            * mixhashes

\* hashimoto, lines 775-785: access i; lookup[x + 1] is lookup(x)
hashimoto_access(s, mix, n, lookup, i) ==
    LET p == hashimoto_p(s, mix, n, i)
        newdata == lookup[p + 1] \o lookup[p + 2]
    IN  fnv_elementwise(mix, newdata)

\* the accesses lo .. hi - 1, in order (halved to keep the evaluation shallow)
RECURSIVE hashimoto_accesses(_, _, _, _, _, _)
hashimoto_accesses(s, mix, n, lookup, lo, hi) ==
    IF lo >= hi THEN mix
    ELSE IF lo + 1 = hi THEN hashimoto_access(s, mix, n, lookup, lo)
    ELSE LET mid == (lo + hi) \div 2
             m == hashimoto_accesses(s, mix, n, lookup, lo, mid)
         IN  IF m = <<>> THEN m
             ELSE hashimoto_accesses(s, m, n, lookup, mid, hi)

\* hashimoto, lines 788-792
hashimoto_compress(mix) ==
    [i \in 1..(Len(mix) \div 4) |->
        fnv(fnv(fnv(mix[4 * i - 3], mix[4 * i - 2]), mix[4 * i - 1]), mix[4 * i])]
        \o <<>>

\* hashimoto, lines 767-792: the compressed mix
hashimoto_cmix(header, nonce, full_size, lookup) ==
    LET n == full_size \div HASH_BYTES
        s == hashimoto_s(header, nonce)
    IN  IF s = <<>> THEN s
        ELSE hashimoto_compress(
                 hashimoto_accesses(s, s \o s, n, lookup, 0, ACCESSES))

\* memcpy(&out.b[0], &words[0], min(sizeof(out.b), words.size())) into the
\* zeroed b: as many bytes as words has elements
h256_memcpy(words) ==
    LET count == IF Len(words) < 32 THEN Len(words) ELSE 32
        image == write_item(words)
    IN  [k \in 1..32 |-> IF k <= count THEN image[k] ELSE 0]

\* hashimoto, lines 754-798
hashimoto(header, nonce, full_size, lookup) ==
    LET v == sha3_256(hashimoto_s(header, nonce))
        cmix == hashimoto_cmix(header, nonce, full_size, lookup)
    IN  [value |-> h256_memcpy(v), mixhash |-> h256_memcpy(cmix)]

\* a lookup that computes the item after the one asked for
light_lookup_off_by_one(c, full_size) ==
    [x \in 1..(full_size \div HASH_BYTES) |-> calc_dataset_item(c.data, x)]
        \o <<>>

\* the lookup of hashimoto_light, on the indices below full_size / 64
light_lookup(c, full_size) ==
    [x \in 1..(full_size \div HASH_BYTES) |-> calc_dataset_item(c.data, x - 1)]
        \o <<>>

\* hashimoto_light, lines 809-812
hashimoto_light(full_size, c, header, nonce) ==
    LET lookup == light_lookup(c, full_size)
    IN  IF lookup = <<>> THEN NoHandle
        ELSE hashimoto(header, nonce, full_size, lookup)

\* hashimoto_full, lines 815-818
hashimoto_full(full_size, dataset, header, nonce) ==
    hashimoto(header, nonce, full_size, dataset.data)

\* the last epoch whose seed hash is asked for
MaxSeedEpoch == 2

\* the epochs whose handles the functions are applied to
FnEpochs == Epochs

\* a function was applied to args and returned result
Applied(op, args, result) ==
    /\ fn_call = NoCall
    /\ fn_call' = [op |-> op, args |-> args]
    /\ fn_result' = result
    /\ UNCHANGED <<fn_dag, dag_vars, fs_vars, ob_vars>>

\* the first and the last block number of the epochs up to MaxSeedEpoch
SeedBlockNumbers ==
    {e * EPOCH_LENGTH : e \in 0..MaxSeedEpoch}
        \cup {e * EPOCH_LENGTH + (EPOCH_LENGTH - 1) : e \in 0..MaxSeedEpoch}

\* get_seedhash(block_number)
GetSeedhash(block_number) ==
    Applied("get_seedhash", <<block_number>>, get_seedhash(block_number))

\* the last epoch whose sizes are asked for (the model's integers hold the
\* DAG sizes of the epochs up to 127)
MaxSizeEpoch == 60

SizeBlockNumbers == {e * EPOCH_LENGTH : e \in 0..MaxSizeEpoch}

\* cache_t::get_cache_size(block_number) and dag::get_full_size(block_number)
GetCacheSize(block_number) ==
    Applied("get_cache_size", <<block_number>>,
            get_cache_size_unscaled(block_number))

GetFullSize(block_number) ==
    Applied("get_full_size", <<block_number>>,
            get_full_size_unscaled(block_number))

\* the 32-byte buffers headers are deserialized from: four leading bytes,
\* then zeros
HeaderBuffers ==
    {lead \o [k \in 1..28 |-> 0] :
        lead \in {<<0, 0, 0, 1>>, <<1, 0, 0, 0>>, <<128, 2, 0, 255>>}}

\* nonces, as their eight bytes in memory order
Nonces ==
    {<<1, 0, 0, 0, 0, 0, 0, 0>>, <<0, 0, 0, 0, 0, 0, 0, 1>>,
     <<255, 2, 0, 0, 0, 0, 0, 128>>}

\* hashimoto_light and hashimoto_full on the handle of epoch e, with the
\* handle's DAG size as full_size
HashimotoLight(e, buffer, nonce) ==
    Applied("hashimoto_light", <<e, buffer, nonce>>,
            hashimoto_light(fn_dag[e].size, fn_dag[e].cache,
                            deserialize(buffer), nonce))

HashimotoFull(e, buffer, nonce) ==
    Applied("hashimoto_full", <<e, buffer, nonce>>,
            hashimoto_full(fn_dag[e].size, fn_dag[e],
                           deserialize(buffer), nonce))

\* the hash buffers the codec is applied to: 32 or 64 bytes, a four-byte
\* pattern repeated
CodecByteValues == {0, 1, 255}

CodecBuffers ==
    {[k \in 1..size |-> lead[((k - 1) % WORD_BYTES) + 1]] :
        size \in {32, 64}, lead \in [1..WORD_BYTES -> CodecByteValues]}

\* sha3_base::deserialize on a hash whose bytes are buffer
Deserialize(buffer) == Applied("deserialize", <<buffer>>, deserialize(buffer))

\* mkcache, lines 344-361: the cache of epoch e as it is when the generation
\* loop reaches round i and item j
RECURSIVE mkcache_before(_, _, _)
mkcache_before(e, i, j) ==
    LET n == get_cache_size(e * EPOCH_LENGTH) \div HASH_BYTES
        prev == IF j = 0 THEN mkcache_before(e, i - 1, n - 1)
                ELSE mkcache_before(e, i, j - 1)
    IN  IF i = 0 /\ j = 0
        THEN mkcache_seeding(mkcache_first(get_seedhash(e * EPOCH_LENGTH)), n)
        ELSE IF prev = <<>> THEN prev
        ELSE IF j = 0 THEN mkcache_round_step(prev, i - 1, n - 1) \o <<>>
        ELSE mkcache_round_step(prev, i, j - 1) \o <<>>

\* one turn of mkcache's generation loop, on the cache as the loop finds it
MkcacheRoundStep(e, i, j) ==
    \E data \in {mkcache_before(e, i, j)} :
        Applied("mkcache_round_step", <<e, i, j>>,
                [before |-> data, after |-> mkcache_round_step(data, i, j)])

\* dag::data()[i] on the handle of epoch e
DagData(e, i) == Applied("data", <<e, i>>, fn_dag[e].data[i + 1])

\* the largest of the small item indices calc_dataset_item is applied to
MaxItemIndex == 7

\* item indices: below and above the number of cache items, and large ones
ItemIndices == (0..MaxItemIndex) \cup {65536 + 255, 2147483647}

\* dag::impl_t::calc_dataset_item on the cache of the handle of epoch e
CalcDatasetItem(e, i) ==
    Applied("calc_dataset_item", <<e, i>>,
            calc_dataset_item(fn_dag[e].cache.data, i))

FnNext ==
    \/ \E e \in FnEpochs, i \in ItemIndices : CalcDatasetItem(e, i)
    \/ \E e \in FnEpochs :
           \E i \in 0..((get_full_size(e * EPOCH_LENGTH) \div HASH_BYTES) - 1) :
               DagData(e, i)
    \/ \E e \in FnEpochs, i \in 0..(CACHE_ROUNDS - 1) :
           \E j \in 0..((get_cache_size(e * EPOCH_LENGTH) \div HASH_BYTES) - 1) :
               MkcacheRoundStep(e, i, j)
    \/ \E buffer \in CodecBuffers : Deserialize(buffer)
    \/ \E e \in FnEpochs, buffer \in HeaderBuffers, nonce \in Nonces :
           HashimotoLight(e, buffer, nonce)
    \/ \E e \in FnEpochs, buffer \in HeaderBuffers, nonce \in Nonces :
           HashimotoFull(e, buffer, nonce)
    \/ \E b \in SizeBlockNumbers : GetCacheSize(b)
    \/ \E b \in SizeBlockNumbers : GetFullSize(b)
    \/ \E b \in SeedBlockNumbers : GetSeedhash(b)

FnInit ==
    /\ DagInit
    /\ FsIdle
    /\ fn_dag = [e \in FnEpochs |-> dag_impl(e * EPOCH_LENGTH)]
    /\ fn_call = NoCall
    /\ fn_result = <<>>
    /\ ObIdle

FnSpec == FnInit /\ [][FnNext]_vars

\* ------------------------------------ the observed operation's specification

\* the epochs of the handles that are generated, saved and loaded
ObEpochs == Epochs

\* the item counts of the cache and of the DAG of epoch e
cache_items(e) == get_cache_size(e * EPOCH_LENGTH) \div HASH_BYTES
dag_items(e) == get_full_size(e * EPOCH_LENGTH) \div HASH_BYTES

\* a turn that goes on whatever the observer returns
TurnIgnoringAnswer(next_run, called, step, max, phase, turn, continue, what) ==
    /\ called \/ continue
    /\ ob_log' = IF called
                 THEN Append(ob_log, [step |-> step, max |-> max, phase |-> phase,
                                      turn |-> turn, answer |-> continue,
                                      work |-> ob_run.work + 1])
                 ELSE ob_log
    /\ ob_run' = [next_run EXCEPT !.work = ob_run.work + 1]
    /\ UNCHANGED <<dag_vars, fs_vars, fn_vars>>

\* one turn of a loop: the item is computed, read or written, then
\* `if ((counter % CALLBACK_FREQUENCY) == 0 && !callback(step, max, phase))
\* throw hash_exception(what)` (lines 337-340, 356-359, 492-495, 504-507,
\* 374-377, 592-595).  continue is what the observer returns, turn the
\* number of the turn within the phase, next_run the locals if the loop
\* goes on
Turn(next_run, called, step, max, phase, turn, continue, what) ==
    /\ called \/ continue
    /\ ob_log' = IF called
                 THEN Append(ob_log, [step |-> step, max |-> max, phase |-> phase,
                                      turn |-> turn, answer |-> continue,
                                      work |-> ob_run.work + 1])
                 ELSE ob_log
    /\ ob_run' = IF called /\ ~continue
                 THEN [ob_run EXCEPT !.pc = "error", !.error = what,
                                     !.work = @ + 1]
                 ELSE [next_run EXCEPT !.work = ob_run.work + 1]
    /\ UNCHANGED <<dag_vars, fs_vars, fn_vars>>

\* where the operation is after a loop's counters moved to run
ObAfterSeeding(run) ==
    IF run.i < cache_items(run.epoch) THEN run
    ELSE [run EXCEPT !.pc = "cache_generation", !.i = 0, !.j = 0,
                     !.progress_counter = 0]

ObAfterGeneration(run) ==
    IF run.i < CACHE_ROUNDS THEN run
    ELSE [run EXCEPT !.pc = "dag_generation", !.i = 0, !.j = 0]

ObAfterDagGeneration(run) ==
    IF run.i < dag_items(run.epoch) THEN run ELSE [run EXCEPT !.pc = "done"]

\* dag::impl_t::impl_t(block_number, callback) begins: mkcache up to its
\* first item, line 333
ObConstruct(e) ==
    /\ ob_run = NoRun
    /\ ob_run' = ObAfterSeeding([NoRun EXCEPT !.op = "generate", !.epoch = e,
                                              !.pc = "cache_seeding", !.i = 1])
    /\ UNCHANGED <<ob_log, dag_vars, fs_vars, fn_vars>>

\* mkcache, lines 334-341
ObSeedStep(continue) ==
    /\ ob_run.pc = "cache_seeding"
    /\ Turn(ObAfterSeeding([ob_run EXCEPT !.i = @ + 1]),
            (ob_run.i % CALLBACK_FREQUENCY) = 0,
            ob_run.i, cache_items(ob_run.epoch), "cache_seeding", ob_run.i,
            continue, "Cache creation cancelled.")

\* the round index in place of the progress counter
generation_round_index(run) == run.i

\* mkcache, line 356: the step passed to the observer
generation_step(run) == run.progress_counter

\* mkcache, lines 346-360
ObGenerationStep(continue) ==
    LET n == cache_items(ob_run.epoch)
        called == (ob_run.i % CALLBACK_FREQUENCY) = 0
        last == ob_run.j + 1 >= n
    IN  /\ ob_run.pc = "cache_generation"
        /\ Turn(ObAfterGeneration([ob_run EXCEPT
                    !.j = IF last THEN 0 ELSE @ + 1,
                    !.i = IF last THEN @ + 1 ELSE @,
                    !.progress_counter = IF called THEN @ + 1 ELSE @]),
                called, generation_step(ob_run), n * CACHE_ROUNDS,
                "cache_generation", ob_run.i * n + ob_run.j + 1,
                continue, "Cache creation cancelled.")

\* generate, lines 603-610
ObDagGenerationStep(continue) ==
    /\ ob_run.pc = "dag_generation"
    /\ Turn(ObAfterDagGeneration([ob_run EXCEPT !.i = @ + 1]),
            (ob_run.i % CALLBACK_FREQUENCY) = 0,
            ob_run.i, dag_items(ob_run.epoch), "dag_generation", ob_run.i + 1,
            continue, "DAG creation cancelled.")

\* save on the generated handle of epoch e begins: the header is written,
\* lines 455-484
ObSave(e) ==
    /\ ob_run = NoRun
    /\ ob_run' = [NoRun EXCEPT !.op = "save", !.epoch = e, !.pc = "save_cache"]
    /\ UNCHANGED <<ob_log, dag_vars, fs_vars, fn_vars>>

\* save, line 484: max_count = cache.size() + data.size(), the cache's size
\* in bytes and the DAG's number of items
save_max_count(e) == get_cache_size(e * EPOCH_LENGTH) + dag_items(e)

\* save, lines 486-496: one turn of the loop over the cache's items
ObSaveCacheStep(continue) ==
    LET count == ob_run.count + 1
        stepped == [ob_run EXCEPT !.count = count, !.i = @ + 1]
    IN  /\ ob_run.pc = "save_cache"
        /\ Turn(IF stepped.i < cache_items(ob_run.epoch) THEN stepped
                ELSE [stepped EXCEPT !.pc = "save_dag", !.i = 0],
                (count % CALLBACK_FREQUENCY) = 0,
                count, save_max_count(ob_run.epoch), "dag_saving", count,
                continue, "DAG save cancelled.")

\* save, lines 498-510: one turn of the loop over the DAG's items
ObSaveDagStep(continue) ==
    LET count == ob_run.count + 1
        stepped == [ob_run EXCEPT !.count = count, !.i = @ + 1]
    IN  /\ ob_run.pc = "save_dag"
        /\ Turn(IF stepped.i < dag_items(ob_run.epoch) THEN stepped
                ELSE [stepped EXCEPT !.pc = "done"],
                (count % CALLBACK_FREQUENCY) = 0,
                count, save_max_count(ob_run.epoch), "dag_saving", count,
                continue, "DAG save cancelled.")

\* the item counts load derives from the epoch the file declares, lines
\* 564-565 and 366, 584
load_cache_items(e) == get_cache_size((e * EPOCH_LENGTH) + 1) \div HASH_BYTES
load_dag_items(e) == get_full_size((e * EPOCH_LENGTH) + 1) \div HASH_BYTES

\* load of a file that declares epoch e and passes the checks of lines
\* 532-575 reaches cache.load, line 581
ObLoad(e) ==
    /\ ob_run = NoRun
    /\ ob_run' = [NoRun EXCEPT !.op = "load", !.epoch = e, !.pc = "cache_loading"]
    /\ UNCHANGED <<ob_log, dag_vars, fs_vars, fn_vars>>

\* cache_t::impl_t::load, lines 370-378
ObLoadCacheStep(continue) ==
    LET count == ob_run.count + 1
        stepped == [ob_run EXCEPT !.count = count]
    IN  /\ ob_run.pc = "cache_loading"
        /\ Turn(IF count < load_cache_items(ob_run.epoch) THEN stepped
                ELSE [stepped EXCEPT !.pc = "dag_loading", !.count = 0],
                (count % CALLBACK_FREQUENCY) = 0,
                count, load_cache_items(ob_run.epoch), "cache_loading", count,
                continue, "Cache loading cancelled.")

\* dag::impl_t::load, lines 588-596
ObLoadDagStep(continue) ==
    LET count == ob_run.count + 1
        stepped == [ob_run EXCEPT !.count = count]
    IN  /\ ob_run.pc = "dag_loading"
        /\ Turn(IF count < load_dag_items(ob_run.epoch) THEN stepped
                ELSE [stepped EXCEPT !.pc = "done"],
                (count % CALLBACK_FREQUENCY) = 0,
                count, load_dag_items(ob_run.epoch), "dag_loading", count,
                continue, "DAG loading cancelled.")

ObNext ==
    \/ \E e \in ObEpochs : ObConstruct(e)
    \/ \E continue \in BOOLEAN : ObSeedStep(continue)
    \/ \E continue \in BOOLEAN : ObGenerationStep(continue)
    \/ \E continue \in BOOLEAN : ObDagGenerationStep(continue)
    \/ \E e \in ObEpochs : ObSave(e)
    \/ \E continue \in BOOLEAN : ObSaveCacheStep(continue)
    \/ \E continue \in BOOLEAN : ObSaveDagStep(continue)
    \/ \E e \in ObEpochs : ObLoad(e)
    \/ \E continue \in BOOLEAN : ObLoadCacheStep(continue)
    \/ \E continue \in BOOLEAN : ObLoadDagStep(continue)

ObInit == DagInit /\ FsIdle /\ FnIdle /\ ObIdle

ObSpec == ObInit /\ [][ObNext]_vars

\* ============================================================ the claims

BuildPhases == {"cache_seeding", "cache_generation", "dag_generation"}
Installed == {dag_cache[e] : e \in Epochs} \ {NoHandle}

\* C1: all calls of get_dag for block numbers of one epoch that return,
\* return the same handle, the one the registry holds; an object built by a
\* thread that lost the insertion is never returned
C1_SameHandlePerEpoch ==
    /\ \A p, q \in returned : p[1] = q[1] => p[2] = q[2]
    /\ \A p \in returned :
          /\ dag_cache[p[1]] = p[2]
          /\ heap[p[2]].state = "live"
    /\ \A t \in Threads : thread[t].result.kind = "handle" =>
          <<thread[t].result.epoch, thread[t].result.id>> \in returned

\* two threads hold the same handle and a race loser's object was discarded
C1_RaceResolved ==
    \E t, u \in Threads :
        /\ t # u
        /\ thread[t].result.kind = "handle"
        /\ thread[u].result.kind = "handle"
        /\ thread[t].result.id = thread[u].result.id
        /\ \E h \in HandleIds : heap[h].state = "discarded"

\* C2: a step of a constructing thread either goes on, after an observer
\* call that returned true, or ends the call with an error; the step that
\* ends it changes neither the registry nor the handles returned, destroys
\* the object under construction, and leaves it out of the registry and out
\* of every thread's reach
C2_CancelLeavesRegistry ==
    [][\A t \in Threads :
        (thread[t].pc \in BuildPhases /\ thread'[t] # thread[t]) =>
            \/ /\ thread'[t].pc \in BuildPhases \cup {"lock_insert"}
               /\ thread'[t].impl = thread[t].impl
               /\ thread'[t].result.kind = "none"
               /\ thread'[t].callback # <<>>
               /\ thread'[t].callback[4] = TRUE
            \/ /\ thread'[t].pc = "idle"
               /\ thread'[t].result.kind = "error"
               /\ thread'[t].result.what \in
                     {"Cache creation cancelled.", "DAG creation cancelled."}
               /\ dag_cache' = dag_cache
               /\ returned' = returned
               /\ heap'[thread[t].impl].state = "destroyed"
               /\ \A e \in Epochs : dag_cache'[e] # thread[t].impl
               /\ \A u \in Threads :
                     /\ thread'[u].impl # thread[t].impl
                     /\ thread'[u].result.id # thread[t].impl
      ]_vars

\* one call was cancelled while its cache was built, another while its DAG
\* items were generated, and the registry is empty
C2_CancelledInBothPhases ==
    \E t, u \in Threads :
        /\ thread[t].result.what = "Cache creation cancelled."
        /\ thread[u].result.what = "DAG creation cancelled."
        /\ \A e \in Epochs : dag_cache[e] = NoHandle

\* C3: a thread holds the registry mutex exactly while it is at the lookup
\* or at the insertion, never while it constructs (seeds or generates the
\* cache, generates DAG items, runs the observer); so whoever holds the
\* mutex while another thread waits for it is not constructing
C3_MutexOnlyAroundMap ==
    /\ dag_cache_mutex \in Threads \cup {NoThread}
    /\ \A t \in Threads :
          /\ (dag_cache_mutex = t) <=> (thread[t].pc \in {"find", "insert"})
          /\ thread[t].pc \in BuildPhases \cup {"construct"} =>
                dag_cache_mutex # t
    /\ \A t, u \in Threads :
          (thread[t].pc = "lock_find" /\ dag_cache_mutex = u) =>
              thread[u].pc \notin BuildPhases \cup {"construct"}

\* one thread is at its lookup, holding the mutex, while another generates
\* DAG items
C3_LookupDuringConstruction ==
    \E t, u \in Threads :
        /\ thread[t].pc = "dag_generation"
        /\ thread[t].callback # <<>>
        /\ thread[u].pc = "find"
        /\ dag_cache_mutex = u

\* C4: an installed handle stays: every step keeps each epoch's handle, and
\* keeps it alive (the registry, a map, holds one handle per epoch)
C4_InstalledHandleStays ==
    [][\A e \in Epochs :
          dag_cache[e] # NoHandle =>
              /\ dag_cache'[e] = dag_cache[e]
              /\ heap'[dag_cache[e]].state = "live"
      ]_vars

\* an insertion failed: the registry holds a handle for an epoch and the
\* object another thread built was discarded
C4_FailedInsertion ==
    \E e \in Epochs, h \in HandleIds :
        /\ dag_cache[e] # NoHandle
        /\ dag_cache[e] # h
        /\ heap[h].state = "discarded"
        /\ heap[dag_cache[e]].state = "live"

\* C5: the handle the registry holds for epoch e is fully constructed: its
\* epoch is e, its sizes are those of e, its cache and its data hold
\* size / 64 items; and no object under construction is in the registry or
\* was returned
C5_RegistryHandlesComplete ==
    /\ \A e \in Epochs : dag_cache[e] # NoHandle =>
          LET h == heap[dag_cache[e]]
          IN  /\ h.state = "live"
              /\ h.epoch = e
              /\ h.cache_epoch = e
              /\ h.size = get_full_size(e * EPOCH_LENGTH)
              /\ h.cache_size = get_cache_size(e * EPOCH_LENGTH)
              /\ h.cache_len = h.cache_size \div HASH_BYTES
              /\ h.data_len = h.size \div HASH_BYTES
    /\ \A h \in HandleIds : heap[h].state = "constructing" =>
          /\ h \notin Installed
          /\ \A p \in returned : p[2] # h

\* the registry holds a handle for epoch 0 and one for epoch 1, of
\* different sizes
C5_TwoEpochsInstalled ==
    /\ dag_cache[0] # NoHandle
    /\ dag_cache[1] # NoHandle
    /\ heap[dag_cache[0]].data_len < heap[dag_cache[1]].data_len

\* C6: a load from a file that declares epoch e gives a handle, the one the
\* registry holds for e
C6_LoadedHandleInRegistry ==
    \A t \in Threads : thread[t].result.kind = "loaded" =>
        /\ thread[t].result.id # NoHandle
        /\ dag_cache[thread[t].result.epoch] = thread[t].result.id

\* C7: the bytes save writes for the generated handle, read back by load
\* with an observer that never stops, pass load's checks and give a handle
\* with the same epoch and size, the same cache items and the same DAG items
C7_RoundTrip ==
    (/\ fs_result.op = "load"
     /\ fs_result.error \notin {"Cache loading cancelled.",
                                "DAG loading cancelled."}
     /\ fs_file = save(fs_handle, 0).file)
    => /\ fs_result.error = ""
       /\ fs_result.handle = fs_handle

\* C8: after a save that ran to its end the header is 65 bytes (the magic
\* and its NUL, the versions, the epoch, four offsets, a zero byte), and the
\* offsets describe the file: the cache bytes begin right after the header,
\* at cache_begin = 65, and end at cache_end; dag_begin = cache_end; dag_end
\* is the length of the file
C8_HeaderAndOffsets ==
    (fs_result.op = "save" /\ fs_result.error = "") =>
        LET header == Len(fs_file) - fs_handle.cache.size - fs_handle.size
            cache_begin == cache_begin_of(fs_file)
            cache_end == cache_end_of(fs_file)
        IN  /\ header = 65
            /\ SubSeq(fs_file, 1, 12) = DAG_MAGIC_BYTES \o <<0>>
            /\ major_of(fs_file) = MAJOR_VERSION
            /\ revision_of(fs_file) = REVISION
            /\ minor_of(fs_file) = MINOR_VERSION
            /\ epoch_of(fs_file) = fs_handle.epoch
            /\ fs_file[header] = 0
            /\ cache_begin = header
            /\ cache_end - cache_begin = fs_handle.cache.size
            /\ SubSeq(fs_file, header + 1, header + fs_handle.cache.size)
                  = write_items(fs_handle.cache.data)
            /\ dag_begin_of(fs_file) = cache_end
            /\ dag_end_of(fs_file) = Len(fs_file)

\* whether load, with an observer that never stops, accepts the file
Accepts(file) == load(file, 0).error = ""

\* C9 as stated: a load of a file whose 12 magic bytes differ from
\* "EGIHASH_DAG\0", or whose (major, revision) is not (1, 23), ends with an
\* error before any item is read; the minor version does not change whether
\* a file is accepted; a load that ends with an error gives no handle
C9_RejectsBadMagicOrVersion ==
    (fs_result.op = "load" /\ Len(fs_file) >= 65) =>
        /\ (\/ SubSeq(fs_file, 1, 12) # DAG_MAGIC_BYTES \o <<0>>
            \/ major_of(fs_file) # 1
            \/ revision_of(fs_file) # 23)
           => (fs_result.error # "" /\ fs_result.items = 0)
        /\ \A minor \in 0..1 :
              Accepts(Patch(fs_file, 21, write_uint(minor, 4)))
                  <=> Accepts(fs_file)
        /\ fs_result.error # "" => fs_result.handle = NoHandle

\* C9, amended: a load of a file whose first 11 bytes differ from
\* "EGIHASH_DAG", or whose (major, revision) is not (1, 23), ends with an
\* error before any item is read and before the observer is called: "Not a
\* DAG file" for the magic and "DAG version is invalid" for the version,
\* unless the file is below the minimum size; the byte after the magic and
\* the minor version change nothing of load's outcome; a load that ends
\* with an error gives no handle
C9_RejectsBadMagic11OrVersion ==
    (fs_result.op = "load" /\ Len(fs_file) >= 65) =>
        LET bad_magic == SubSeq(fs_file, 1, 11) # DAG_MAGIC_BYTES
            bad_version == major_of(fs_file) # 1 \/ revision_of(fs_file) # 23
            large == Len(fs_file) >= MIN_DAG_FILE_SIZE
        IN  /\ (bad_magic \/ bad_version) =>
                  /\ fs_result.error \in {"DAG is corrupt", "Not a DAG file",
                                          "DAG version is invalid"}
                  /\ fs_result.items = 0
                  /\ fs_result.callback = <<>>
            /\ (large /\ bad_magic) => fs_result.error = "Not a DAG file"
            /\ (large /\ ~bad_magic /\ bad_version) =>
                  fs_result.error = "DAG version is invalid"
            /\ \A b \in 0..1 :
                  /\ load(Patch(fs_file, 12, <<b>>), 0) = load(fs_file, 0)
                  /\ load(Patch(fs_file, 21, write_uint(b, 4)), 0)
                        = load(fs_file, 0)
            /\ fs_result.error # "" => fs_result.handle = NoHandle

\* a file with revision 22 and a nonzero byte after the magic was rejected
\* for its version
C9_Revision22Rejected ==
    /\ fs_result.op = "load"
    /\ revision_of(fs_file) = 22
    /\ pad_of(fs_file) # 0
    /\ fs_result.error = "DAG version is invalid"

\* C10: a file that load accepts has, for the epoch e its header declares,
\* cache_end - cache_begin = cache_size(e) and dag_end - dag_begin =
\* dag_size(e), ranges that overlap neither each other nor the 65 header
\* bytes and lie within the file, and a length of at least
\* 65 + cache_size(e) + dag_size(e) (so a file of exactly that length,
\* truncated by one byte, is rejected)
C10_AcceptedOnlyIfConsistent ==
    (fs_result.op = "load" /\ fs_result.error = "") =>
        LET block_number == epoch_of(fs_file) * EPOCH_LENGTH
            cache_begin == cache_begin_of(fs_file)
            cache_end == cache_end_of(fs_file)
            dag_begin == dag_begin_of(fs_file)
            dag_end == dag_end_of(fs_file)
        IN  /\ cache_end - cache_begin = get_cache_size(block_number)
            /\ dag_end - dag_begin = get_full_size(block_number)
            /\ cache_end <= dag_begin \/ dag_end <= cache_begin
            /\ cache_begin >= 65 /\ dag_begin >= 65
            /\ cache_end <= Len(fs_file) /\ dag_end <= Len(fs_file)
            /\ Len(fs_file) >= 65 + get_cache_size(block_number)
                                  + get_full_size(block_number)

\* H256 applied k times to x
RECURSIVE IteratedH256(_, _)
IteratedH256(x, k) == IF k = 0 THEN x ELSE IteratedH256(H256(x), k - 1)

\* C11: get_seedhash(b) depends only on e = b / 30000 and is H256 applied e
\* times to 32 zero bytes, each time to the whole 32-byte seed before it
C11_SeedIsIteratedH256 ==
    fn_call.op = "get_seedhash" =>
        LET e == fn_call.args[1] \div EPOCH_LENGTH
        IN  /\ fn_result = get_seedhash(e * EPOCH_LENGTH)
            /\ Len(fn_result) = 32
            /\ fn_result = IteratedH256([k \in 1..32 |-> 0], e)

\* q is a prime number (for q below 16000000)
Prime(q) == q >= 2 /\ \A d \in 2..4000 : d * d > q \/ q % d # 0

\* size is the largest multiple of unit that is at most limit and whose
\* quotient by unit is prime
LargestPrimeMultiple(size, unit, limit) ==
    /\ size > 0
    /\ size <= limit
    /\ size % unit = 0
    /\ Prime(size \div unit)
    /\ \A q \in ((size \div unit) + 1)..(limit \div unit) : ~Prime(q)

\* C12: for every epoch e of the range, get_cache_size is the largest value
\* up to 2^24 + 2^17 * e - 64 whose quotient by 64 is prime and get_full_size
\* the largest value up to 2^30 + 2^23 * e - 128 whose quotient by 128 is
\* prime; for epoch 0 they are 16776896 and 1073739904; the sizes stay
\* above zero
C12_SizesAreLargestPrimeMultiples ==
    LET e == fn_call.args[1] \div EPOCH_LENGTH
    IN  /\ fn_call.op = "get_cache_size" =>
              /\ LargestPrimeMultiple(fn_result, 64,
                                      16777216 + 131072 * e - 64)
              /\ e = 0 => fn_result = 16776896
        /\ fn_call.op = "get_full_size" =>
              /\ LargestPrimeMultiple(fn_result, 128,
                                      1073741824 + 8388608 * e - 128)
              /\ e = 0 => fn_result = 1073739904

\* the sizes of the last epoch of the range were computed, below the sizes
\* of the first try
C12_SearchSteppedDown ==
    /\ fn_call.op = "get_full_size"
    /\ fn_call.args[1] = MaxSizeEpoch * EPOCH_LENGTH
    /\ fn_result < DATASET_BYTES_INIT + DATASET_BYTES_GROWTH * MaxSizeEpoch
                       - MIX_BYTES

\* C13: hashimoto_light over the cache of a generated handle and
\* hashimoto_full over the handle's DAG, with the same full_size, header and
\* nonce, return the same value and the same mixhash, and the returned pair
\* is a function of the inputs
C13_LightEqualsFull ==
    fn_call.op \in {"hashimoto_light", "hashimoto_full"} =>
        LET h == fn_dag[fn_call.args[1]]
            header == deserialize(fn_call.args[2])
            nonce == fn_call.args[3]
        IN  /\ fn_result = hashimoto_full(h.size, h, header, nonce)
            /\ fn_result = hashimoto_light(h.size, h.cache, header, nonce)

\* a light evaluation on a handle of more than two items, whose mix is not
\* all zero
C13_LightEvaluated ==
    /\ fn_call.op = "hashimoto_light"
    /\ Len(fn_dag[fn_call.args[1]].data) > 2
    /\ fn_call.args[3][8] # 0
    /\ \E k \in 1..8 : fn_result.mixhash[k] # 0

\* the bytes of a sequence of words, four per word, the least significant
\* first
LittleEndian(words) ==
    [k \in 1..(4 * Len(words)) |->
        LET w == words[((k - 1) \div 4) + 1]
            half == IF (k - 1) % 4 < 2 THEN Lo16(w) ELSE Hi16(w)
        IN  IF (k - 1) % 2 = 0 THEN half % 256 ELSE half \div 256]

\* the seed hash s and the compressed mix of the evaluation in fn_call
CallS == hashimoto_s(deserialize(fn_call.args[2]), fn_call.args[3])

CallCmix ==
    hashimoto_cmix(deserialize(fn_call.args[2]), fn_call.args[3],
                   fn_dag[fn_call.args[1]].size, fn_dag[fn_call.args[1]].data)

IsHashimoto == fn_call.op \in {"hashimoto_light", "hashimoto_full"}

\* C14: the value hashimoto returns is H256 of the 96 bytes made of the 16
\* serialized words of s followed by the 8 serialized words of cmix
C14_DigestCoversCmix ==
    IsHashimoto =>
        /\ Len(LittleEndian(CallS) \o LittleEndian(CallCmix)) = 96
        /\ fn_result.value = H256(LittleEndian(CallS) \o LittleEndian(CallCmix))

\* C15: hashimoto writes all 32 bytes of value, the 32 bytes of its digest,
\* and all 32 bytes of mixhash, the 8 words of cmix at 4 bytes per word
C15_AllBytesWritten ==
    IsHashimoto =>
        /\ Len(CallCmix) = 8
        /\ fn_result.mixhash = LittleEndian(CallCmix)
        /\ fn_result.value = LittleEndian(sha3_256(CallS))

\* the bytes hashimoto hands to H512 for a header buffer and a nonce
SeedInput(buffer, nonce) ==
    serialize(hashimoto_header_seed(deserialize(buffer), nonce))

\* C16: the input of H512 at the start of hashimoto is 40 bytes, the 32
\* header bytes followed by the 8 bytes of the nonce, the least significant
\* first, and no other header and nonce give the same input
C16_SeedInputIsHeaderThenNonce ==
    IsHashimoto =>
        /\ SeedInput(fn_call.args[2], fn_call.args[3])
               = fn_call.args[2] \o fn_call.args[3]
        /\ \A buffer \in HeaderBuffers, nonce \in Nonces :
               SeedInput(buffer, nonce)
                       = SeedInput(fn_call.args[2], fn_call.args[3])
                   => buffer = fn_call.args[2] /\ nonce = fn_call.args[3]

\* C17: serialize(deserialize(b)) = b for every buffer b of 32 or 64 bytes,
\* each word being b0 + 2^8 b1 + 2^16 b2 + 2^24 b3 of its four bytes and
\* written back as exactly those four bytes
C17_CodecRoundTrip ==
    fn_call.op = "deserialize" =>
        /\ serialize(fn_result) = fn_call.args[1]
        /\ LittleEndian(fn_result) = fn_call.args[1]

\* C18: the step for item j of a round replaces item j by
\* H512(cache[(j-1+n) mod n] XOR cache[v]), v = cache[j][0] mod n, all read
\* when j is processed, and changes no other item; the index written is j,
\* not the round's index
C18_RoundStepWritesItemJ ==
    fn_call.op = "mkcache_round_step" =>
        LET j == fn_call.args[3]
            before == fn_result.before
            after == fn_result.after
            n == Len(before)
            v == U32Mod(before[j + 1][1], n)
            u == before[((j - 1 + n) % n) + 1]
        IN  /\ after[j + 1]
                   = sha3_512([k \in 1..16 |-> Xor32(u[k], before[v + 1][k])])
            /\ \A k \in 1..n : k # j + 1 => after[k] = before[k]

\* C19: item i of a generated handle, for every i below its size / 64, is
\* calc_dataset_item of the handle's cache and i, and the handle's cache is
\* the cache as the cache builder left it
C19_ItemsAreCalcDatasetItem ==
    fn_call.op = "data" =>
        LET e == fn_call.args[1]
            i == fn_call.args[2]
            h == fn_dag[e]
        IN  /\ Len(h.data) = get_full_size(e * EPOCH_LENGTH) \div HASH_BYTES
            /\ fn_result = calc_dataset_item(h.cache.data, i)
            /\ h.cache.data
                   = mkcache(get_seedhash(e * EPOCH_LENGTH),
                             get_cache_size(e * EPOCH_LENGTH) \div HASH_BYTES)

\* the last item of a handle of more than two items was read
C19_LastItemRead ==
    /\ fn_call.op = "data"
    /\ fn_call.args[2] > 1
    /\ fn_call.args[2] + 1 = Len(fn_dag[fn_call.args[1]].data)
    /\ Len(fn_result) = 16

\* the reference of the DAG item function, on words as their four bytes
\* (the least significant first)
WordBytes(w) == LittleEndian(<<w>>)

WordOfBytes(b) ==
    (IF b[4] >= 128 THEN b[4] - 256 ELSE b[4]) * 16777216
        + b[3] * 65536 + b[2] * 256 + b[1]

RefXorByte(x, y) ==
    LET bit(v, k) == (v \div (2 ^ k)) % 2
        sum[k \in 0..8] ==
            IF k = 8 THEN 0
            ELSE (2 ^ k) * ((bit(x, k) + bit(y, k)) % 2) + sum[k + 1]
    IN  sum[0]

RefXor(a, b) ==
    WordOfBytes([k \in 1..4 |-> RefXorByte(WordBytes(a)[k], WordBytes(b)[k])])

\* fnv(a, b) = ((a * 0x01000193) XOR b) mod 2^32, 0x01000193 = 2^24 + 403
RefFnv(a, b) ==
    LET x == WordBytes(a)
        t1 == x[1] * 403
        t2 == x[2] * 403 + (t1 \div 256)
        t3 == x[3] * 403 + (t2 \div 256)
        t4 == x[4] * 403 + (t3 \div 256) + x[1]
    IN  RefXor(WordOfBytes(<<t1 % 256, t2 % 256, t3 % 256, t4 % 256>>), b)

\* the unsigned value of a word modulo n
RefMod(w, n) ==
    LET x == WordBytes(w)
    IN  ((((((x[4] % n) * 256 + x[3]) % n) * 256 + x[2]) % n) * 256 + x[1]) % n

RefParent(i, j, mix, n) == RefMod(RefFnv(RefXor(i, j), mix[(j % 16) + 1]), n)

RECURSIVE RefParents(_, _, _, _, _)
RefParents(cache, i, mix, lo, hi) ==
    IF lo + 1 = hi
    THEN LET parent == RefParent(i, lo, mix, Len(cache))
         IN  [k \in 1..16 |-> RefFnv(mix[k], cache[parent + 1][k])] \o <<>>
    ELSE LET mid == (lo + hi) \div 2
             m == RefParents(cache, i, mix, lo, mid)
         IN  IF m = <<>> THEN m ELSE RefParents(cache, i, m, mid, hi)

RefItem(cache, i) ==
    LET n == Len(cache)
        first == cache[(i % n) + 1]
        mix == sha3_512([first EXCEPT ![1] = RefXor(first[1], i)])
    IN  IF mix = <<>> THEN mix ELSE sha3_512(RefParents(cache, i, mix, 0, 256))

\* the cache indices calc_dataset_item reads in the turns lo .. hi - 1 of
\* its parents loop, which it enters turn lo with mix
RECURSIVE ParentIndices(_, _, _, _, _)
ParentIndices(cache, i, mix, lo, hi) ==
    IF lo + 1 = hi THEN {dataset_parent_index(cache, i, mix, lo)}
    ELSE LET mid == (lo + hi) \div 2
             m == dataset_parents(cache, i, mix, lo, mid)
         IN  ParentIndices(cache, i, mix, lo, mid)
                 \cup (IF m = <<>> THEN {} ELSE ParentIndices(cache, i, m, mid, hi))

\* C20: calc_dataset_item(cache, i) is the reference's item: mix is a copy of
\* cache[i mod n] with word 0 XORed with the low 32 bits of i, hashed with
\* H512; for j = 0..255 each word is combined as fnv(mix[k], cache[parent][k])
\* with parent = fnv(i XOR j, mix[j mod 16]) mod n; the result is H512 of
\* the final mix; every cache index used is below n
C20_ItemFollowsReference ==
    fn_call.op = "calc_dataset_item" =>
        LET cache == fn_dag[fn_call.args[1]].cache.data
            i == fn_call.args[2]
            n == Len(cache)
            first == cache[(i % n) + 1]
            mix == sha3_512([first EXCEPT ![1] = RefXor(first[1], i)])
        IN  /\ fn_result = RefItem(cache, i)
            /\ i % n \in 0..(n - 1)
            /\ ParentIndices(cache, i, mix, 0, DATASET_PARENTS) \subseteq 0..(n - 1)

\* an item whose index is at least the number of cache items was computed
C20_IndexWrapped ==
    /\ fn_call.op = "calc_dataset_item"
    /\ fn_call.args[2] >= Len(fn_dag[fn_call.args[1]].cache.data)
    /\ fn_call.args[2] % Len(fn_dag[fn_call.args[1]].cache.data) # 0
    /\ Len(fn_result) = 16

\* the accesses lo .. hi - 1 of hashimoto, entered with mix: for each, the
\* access number, the index p the code computes, and the index of the
\* formula (fnv(i XOR s[0], mix[i mod 32]) mod (n / 2)) * 2
RECURSIVE Accesses(_, _, _, _, _, _)
Accesses(s, mix, n, lookup, lo, hi) ==
    IF lo + 1 = hi
    THEN {<<lo, hashimoto_p(s, mix, n, lo),
            RefMod(RefFnv(RefXor(lo, s[1]), mix[(lo % 32) + 1]), n \div 2) * 2>>}
    ELSE LET mid == (lo + hi) \div 2
             m == hashimoto_accesses(s, mix, n, lookup, lo, mid)
         IN  Accesses(s, mix, n, lookup, lo, mid)
                 \cup (IF m = <<>> THEN {}
                       ELSE Accesses(s, m, n, lookup, mid, hi))

CallAccesses ==
    LET h == fn_dag[fn_call.args[1]]
    IN  Accesses(CallS, CallS \o CallS, h.size \div 64, h.data, 0, ACCESSES)

\* C23: in each of the 64 accesses of hashimoto the index p is even, is
\* (fnv(i XOR s[0], mix[i mod 32]) mod (n / 2)) * 2 with n = full_size / 64,
\* and p + j < n for j < 2, so that hashimoto_full stays within a DAG of n
\* items
C23_LookupsWithinDag ==
    IsHashimoto =>
        LET n == fn_dag[fn_call.args[1]].size \div 64
        IN  /\ n = Len(fn_dag[fn_call.args[1]].data)
            /\ {a[1] : a \in CallAccesses} = 0..63
            /\ \A a \in CallAccesses :
                   /\ a[2] % 2 = 0
                   /\ a[2] = a[3]
                   /\ \A j \in 0..1 : a[2] + j \in 0..(n - 1)

\* a full evaluation that reads the last item of a DAG of more than two
\* items, and another item pair as well
C23_LastItemLookedUp ==
    /\ fn_call.op = "hashimoto_full"
    /\ Len(fn_dag[fn_call.args[1]].data) > 2
    /\ \E a \in CallAccesses : a[2] + 2 = Len(fn_dag[fn_call.args[1]].data)
    /\ \E a \in CallAccesses : a[2] + 2 < Len(fn_dag[fn_call.args[1]].data)

\* C21: in the loops of cache seeding, cache generation, DAG generation,
\* save and load, an observer call that returned false is the last one, no
\* item is computed, read or written after it, and the operation has ended
\* with an error; each call carries the counter of its loop (the number of
\* the turn, counted from 0 in cache generation and DAG generation), and a
\* call is made in every turn the callback frequency selects
C21_StopEndsOperation ==
    /\ \A k \in 1..Len(ob_log) :
           /\ ob_log[k].answer = FALSE =>
                  /\ k = Len(ob_log)
                  /\ ob_run.work = ob_log[k].work
                  /\ ob_run.pc = "error"
                  /\ ob_run.error # ""
           /\ ob_log[k].step =
                  IF ob_log[k].phase \in {"cache_generation", "dag_generation"}
                  THEN ob_log[k].turn - 1 ELSE ob_log[k].turn
           /\ ob_log[k].work = k * CALLBACK_FREQUENCY
    /\ Len(ob_log) = ob_run.work \div CALLBACK_FREQUENCY
    /\ ob_run.pc = "error" => ob_log # <<>> /\ ~ob_log[Len(ob_log)].answer

\* a generation was stopped in its last phase, after the calls of the two
\* cache phases
C21_StoppedInDagGeneration ==
    /\ ob_run.op = "generate"
    /\ ob_run.pc = "error"
    /\ ob_run.error = "DAG creation cancelled."
    /\ ob_log[Len(ob_log)].phase = "dag_generation"
    /\ ob_log[Len(ob_log)].step > 0
    /\ \E k \in 1..Len(ob_log) : ob_log[k].phase = "cache_generation"

\* the order of the phases of a generation
PhaseRank(phase) ==
    CASE phase = "cache_seeding" -> 1
      [] phase = "cache_generation" -> 2
      [] phase = "dag_generation" -> 3
      [] OTHER -> 4

\* C22: during a generation the observer sees cache_seeding, then
\* cache_generation, then dag_generation and never an earlier phase again;
\* within a phase, and within dag_saving during a save, the steps increase
\* strictly, none exceeds the max passed with it, and max stays the same
C22_PhasesAndStepsOrdered ==
    ob_run.op \in {"generate", "save"} =>
        /\ \A k \in 1..Len(ob_log) :
               /\ ob_log[k].step <= ob_log[k].max
               /\ ob_log[k].phase \in
                      (IF ob_run.op = "save" THEN {"dag_saving"}
                       ELSE {"cache_seeding", "cache_generation", "dag_generation"})
        /\ \A a, b \in 1..Len(ob_log) :
               a < b =>
                   /\ PhaseRank(ob_log[a].phase) <= PhaseRank(ob_log[b].phase)
                   /\ ob_log[a].phase = ob_log[b].phase =>
                          /\ ob_log[a].step < ob_log[b].step
                          /\ ob_log[a].max = ob_log[b].max

\* a generation ran to its end and the observer saw all three phases, the
\* second over more than one round
C22_AllPhasesSeen ==
    /\ ob_run.op = "generate"
    /\ ob_run.pc = "done"
    /\ {ob_log[k].phase : k \in 1..Len(ob_log)}
           = {"cache_seeding", "cache_generation", "dag_generation"}
    /\ \E k \in 1..Len(ob_log) :
           /\ ob_log[k].phase = "cache_generation"
           /\ ob_log[k].step >= cache_items(ob_run.epoch)

====
